---- MODULE Spec2Model ----
(***************************************************************************)
(* The hangman game engine of api.py / models.py as a state machine.       *)
(*                                                                         *)
(* The state is the datastore (User, Game and Score entities) together     *)
(* with the answer the last request got.  Every endpoint that writes is    *)
(* one action; a request runs to completion before the next one starts     *)
(* (Spec).  SpecFail additionally lets a datastore write raise, which      *)
(* aborts the request at that write and keeps the writes made before it.   *)
(* SpecRace splits make_move at its read of the game, so that two requests *)
(* interleave; pending holds what each request in flight has read.         *)
(*                                                                         *)
(* Python strings are sequences of one-character strings, so that len(),   *)
(* indexing, lower() and the regular expression are computed.              *)
(***************************************************************************)
EXTENDS Integers, Sequences, FiniteSets, TLC

VARIABLES users, games, scores, nextGameId, scorePuts, userPuts, response,
          pending

vars == <<users, games, scores, nextGameId, scorePuts, userPuts, response,
          pending>>

-----------------------------------------------------------------------------
(* Bounds of the model *)

\* number of Game keys the datastore hands out
MaxGames == 1

-----------------------------------------------------------------------------
(* Characters and strings *)

NL == "\n"

LowerSeq == <<"a","b","c","d","e","f","g","h","i","j","k","l","m",
              "n","o","p","q","r","s","t","u","v","w","x","y","z">>

UpperSeq == <<"A","B","C","D","E","F","G","H","I","J","K","L","M",
              "N","O","P","Q","R","S","T","U","V","W","X","Y","Z">>

Range(s) == {s[i] : i \in DOMAIN s}

LowerLetters == Range(LowerSeq)

UpperLetters == Range(UpperSeq)

\* the character class [a-zA-Z]
IsAlpha(c) == c \in LowerLetters \/ c \in UpperLetters

\* str.lower() on one character
LowerChar(c) ==
    IF c \in UpperLetters
    THEN LowerSeq[CHOOSE i \in DOMAIN UpperSeq : UpperSeq[i] = c]
    ELSE c

\* str.lower()
Lower(s) == [i \in DOMAIN s |-> LowerChar(s[i])]

\* re.match("^[a-zA-Z]+$", s): one or more letters up to the end of the
\* string, where $ also matches just before one trailing newline
ReMatch(s) ==
    /\ Len(s) >= 1
    /\ LET n == IF Len(s) >= 2 /\ s[Len(s)] = NL THEN Len(s) - 1 ELSE Len(s)
       IN  \A i \in 1..n : IsAlpha(s[i])

\* "*" * n
Stars(n) == [i \in 1..n |-> "*"]

-----------------------------------------------------------------------------
(* Requests the model submits *)

UserNames == {"alice", "bob"}

Emails == {"a@x.org"}

\* target words submitted to new_game
TargetWords ==
    { <<"A","a","a","a","a","a","a","B">>,      \* accepted, lower-cased
      <<"a","a","a","a","a","a","a","a">>,      \* accepted, one distinct letter
      <<"a","a","a","a","a","a","b",NL>>,       \* trailing newline
      <<"a","a","a","a","a","a","b">>,          \* 7 letters
      <<"a","a","a","a","a","a","a","1">> }     \* digit

\* guesses submitted to make_move
Guesses ==
    { <<"a">>, <<"A">>, <<"b">>,
      << >>, <<"a","b">>, <<"1">>, <<"b",NL>> }

GameKeys == 1..MaxGames

-----------------------------------------------------------------------------
(* Responses *)

Ok(msg)            == [status |-> "ok", msg |-> msg]
BadRequest(msg)    == [status |-> "BadRequestException", msg |-> msg]
NotFound(msg)      == [status |-> "NotFoundException", msg |-> msg]
Conflict(msg)      == [status |-> "ConflictException", msg |-> msg]
\* an exception no handler catches (AttributeError, a datastore error)
ServerError(msg)   == [status |-> "InternalServerError", msg |-> msg]

-----------------------------------------------------------------------------
(* Datastore *)

\* Python's None, as a value comparable with entity records
None == [none |-> TRUE]

\* the writes of a request that may raise
NoFail == "none"
FailPoints == {"game.put", "score.put", "user.put"}

Init ==
    /\ users = << >>
    /\ games = << >>
    /\ scores = << >>
    /\ nextGameId = 1
    /\ scorePuts = [k \in GameKeys |-> 0]
    /\ userPuts = [k \in GameKeys |-> 0]
    /\ response = Ok("")
    /\ pending = << >>

\* User.query(User.name == name).get()
UserByName(name) == IF name \in DOMAIN users THEN users[name] ELSE None

\* the requests a failing datastore write aborts answer with a server error
Answer(fail, ok) == IF fail = NoFail THEN ok ELSE ServerError(fail)

\* get_by_urlsafe(urlsafe_game_key, Game)
get_by_urlsafe(k) == IF k \in DOMAIN games THEN games[k] ELSE None

\* entity.put() on a map of entities
Put(store, key, entity) ==
    [x \in DOMAIN store \cup {key} |-> IF x = key THEN entity ELSE store[x]]

\* key.delete()
Delete(store, key) == [x \in DOMAIN store \ {key} |-> store[x]]

-----------------------------------------------------------------------------
(* models.py: User *)

NewUser(name, email) ==
    [name |-> name, email |-> email, wins |-> 0, games_played |-> 0,
     total_score |-> 0]

\* add_win that leaves games_played alone
add_win_no_played(user, final_score) ==
    [user EXCEPT !.wins = @ + 1, !.total_score = @ + final_score]

\* add_win that leaves total_score alone
add_win_no_total(user, final_score) ==
    [user EXCEPT !.wins = @ + 1, !.games_played = @ + 1]

add_win(user, final_score) ==
    [user EXCEPT !.wins = @ + 1,
                 !.games_played = @ + 1,
                 !.total_score = @ + final_score]

\* add_loss that also counts a win
add_loss_counts_win(user) ==
    [user EXCEPT !.games_played = @ + 1, !.wins = @ + 1]

add_loss(user) == [user EXCEPT !.games_played = @ + 1]

-----------------------------------------------------------------------------
(* models.py: Game *)

MinWordLength == 8

DefaultWrongGuesses == 10

\* the ValueError Game.new_game raises, "" when it raises none
TargetWordError(target_word) ==
    IF ~ReMatch(target_word)
    THEN "Target word must be a single word and must not contain any numbers or special characters"
    ELSE IF Len(target_word) < MinWordLength
    THEN "Target word must be at least 8 characters long"
    ELSE ""

\* the entity Game.new_game builds
NewGame(user, target_word) ==
    [user |-> user,
     target_word |-> target_word,
     wrong_guesses_allowed |-> DefaultWrongGuesses,
     wrong_guesses_remaining |-> DefaultWrongGuesses,
     game_over |-> FALSE,
     target_word_length |-> Len(target_word),
     correct_letters_guessed |-> << >>,
     target_word_progress |-> Stars(Len(target_word)),
     guess_history |-> << >>]

\* a Score with its two numbers exchanged
NewScore_swapped(game, won) ==
    [user |-> game.user,
     date |-> "today",
     won |-> won,
     wrong_guesses |-> game.wrong_guesses_remaining,
     final_score |-> game.wrong_guesses_allowed - game.wrong_guesses_remaining]

\* the Score Game.end_game builds
NewScore(game, won) ==
    [user |-> game.user,
     date |-> "today",
     won |-> won,
     wrong_guesses |-> game.wrong_guesses_allowed - game.wrong_guesses_remaining,
     final_score |-> game.wrong_guesses_remaining]

\* line 103 left out: the game is never marked over
Finished_forgotten(game) == game

\* line 103
Finished(game) == [game EXCEPT !.game_over = TRUE]

\* Game.end_game on the in-memory game of key k: three writes in a row,
\* game.put(), score.put(), user.put(); the write named fail raises
end_game(k, game, won, fail) ==
    LET over   == Finished(game)
        score  == NewScore(over, won)
        owner  == users[over.user]
        gameOk  == fail # "game.put"
        scoreOk == gameOk /\ fail # "score.put"
        userOk  == scoreOk /\ fail # "user.put"
    IN  /\ games' = IF gameOk THEN Put(games, k, over) ELSE games
        /\ scores' = IF scoreOk THEN Append(scores, score) ELSE scores
        /\ scorePuts' = IF scoreOk THEN [scorePuts EXCEPT ![k] = @ + 1]
                        ELSE scorePuts
        /\ users' = IF userOk
                    THEN Put(users, over.user,
                             IF won THEN add_win(owner, over.wrong_guesses_remaining)
                             ELSE add_loss(owner))
                    ELSE users
        /\ userPuts' = IF userOk THEN [userPuts EXCEPT ![k] = @ + 1]
                       ELSE userPuts

-----------------------------------------------------------------------------
(* api.py: make_move, piece by piece *)

\* the game-over check skipped
IsGameOver_never(game) == FALSE

\* line 94
IsGameOver(game) == game.game_over

\* the length check of lines 98-99 left out
GuessError_no_length(guess) ==
    IF ~ReMatch(guess) THEN "Letter guess must be an alphabet" ELSE ""

\* lines 96-99: the BadRequestException a malformed guess raises, "" if none
GuessError(guess) ==
    IF ~ReMatch(guess) THEN "Letter guess must be an alphabet"
    ELSE IF Len(guess) # 1 THEN "Only single letters allowed as guesses"
    ELSE ""

\* request.guess.lower(), for a guess of one character
GuessLetter(guess) == Lower(guess)[1]

\* the duplicate check extended to every earlier guess
IsDuplicate_any_previous(game, guess) ==
    \E i \in DOMAIN game.guess_history :
        game.guess_history[i][1] = Lower(guess)[1]

\* the duplicate check without lower()
IsDuplicate_case_sensitive(game, guess) ==
    guess[1] \in Range(game.correct_letters_guessed)

\* line 100
IsDuplicate(game, guess) ==
    GuessLetter(guess) \in Range(game.correct_letters_guessed)

\* masking against the latest guess only
RenderProgress_latest_only(target_word, letters) ==
    [a \in 1..Len(target_word) |->
        IF target_word[a] # letters[Len(letters)] THEN "*" ELSE target_word[a]]

\* lines 103, 106-109
RenderProgress(target_word, letters) ==
    [a \in 1..Len(target_word) |->
        IF target_word[a] \notin Range(letters) THEN "*" ELSE target_word[a]]

\* line 104
IsCorrect(game, letter) == letter \in Range(game.target_word)

\* lines 105-111
CorrectGuess(game, letter) ==
    LET letters == Append(game.correct_letters_guessed, letter)
    IN  [game EXCEPT
            !.correct_letters_guessed = letters,
            !.target_word_progress = RenderProgress(game.target_word, letters),
            !.guess_history = Append(@, <<letter, "Correct letter guess">>)]

\* a wrong guess that is charged but not recorded
WrongGuess_no_history(game, letter) ==
    [game EXCEPT !.wrong_guesses_remaining = @ - 1]

\* lines 113-115
WrongGuess(game, letter) ==
    [game EXCEPT
        !.wrong_guesses_remaining = @ - 1,
        !.guess_history = Append(@, <<letter, "Wrong letter guess">>)]

\* lines 103-115
ApplyGuess(game, letter) ==
    IF IsCorrect(game, letter) THEN CorrectGuess(game, letter)
    ELSE WrongGuess(game, letter)

\* the win test comparing lengths only
IsWon_by_length(game) == Len(game.target_word_progress) = Len(game.target_word)

\* line 117
IsWon(game) == game.target_word_progress = game.target_word

\* the loss test off by one
IsLost_below_zero(game) == game.wrong_guesses_remaining < 0

\* line 120
IsLost(game) == game.wrong_guesses_remaining < 1

\* lines 110, 113, 119, 122, 125: msg, msg + ' You win!', msg + ' Game over!'
MoveMessage(game, letter, suffix) ==
    IF IsCorrect(game, letter)
    THEN (IF suffix = "win" THEN "Correct letter guess! You win!"
          ELSE IF suffix = "over" THEN "Correct letter guess! Game over!"
          ELSE "Correct letter guess!")
    ELSE (IF suffix = "win" THEN "Wrong letter guess! You win!"
          ELSE IF suffix = "over" THEN "Wrong letter guess! Game over!"
          ELSE "Wrong letter guess!")

-----------------------------------------------------------------------------
(* api.py: the endpoints that write *)

Unchanged == UNCHANGED <<users, games, scores, nextGameId, scorePuts, userPuts>>

create_user(user_name, email) ==
    IF UserByName(user_name) # None
    THEN /\ response' = Conflict("A User with that name already exists!")
         /\ Unchanged
    ELSE /\ users' = Put(users, user_name, NewUser(user_name, email))
         /\ response' = Ok("User created!")
         /\ UNCHANGED <<games, scores, nextGameId, scorePuts, userPuts>>

\* new_game; fail names the write that raises (NoFail: none does).  The
\* task it queues only refreshes the memcache average, which no entity
\* depends on.  A game is created while the datastore has a key left.
NewGameRequest(user_name, target_word, fail) ==
    LET user == UserByName(user_name)
        word == Lower(target_word)
        err  == TargetWordError(word)
    IN  IF user = None
        THEN /\ response' = NotFound("A User with that name does not exist!")
             /\ Unchanged
        ELSE IF err # ""
        THEN /\ response' = BadRequest(err)
             /\ Unchanged
        ELSE IF fail = "game.put"
        THEN /\ response' = ServerError(fail)
             /\ Unchanged
        ELSE /\ nextGameId <= MaxGames
             /\ games' = Put(games, nextGameId, NewGame(user_name, word))
             /\ nextGameId' = nextGameId + 1
             /\ response' = Ok("Good luck playing Hangman!")
             /\ UNCHANGED <<users, scores, scorePuts, userPuts>>

new_game(user_name, target_word) == NewGameRequest(user_name, target_word, NoFail)

\* lines 94-125 of make_move on the game read at line 93; fail names the
\* write that raises (NoFail: none does)
MakeMoveOn(k, game, guess, fail) ==
    IF game = None
    THEN \* None has no attribute game_over
         /\ response' = ServerError("AttributeError")
         /\ Unchanged
    ELSE IF IsGameOver(game)
    THEN /\ response' = Ok("Game already over!")
         /\ Unchanged
    ELSE IF GuessError(guess) # ""
    THEN /\ response' = BadRequest(GuessError(guess))
         /\ Unchanged
    ELSE IF IsDuplicate(game, guess)
    THEN /\ response' = BadRequest("Letter has previously been guessed")
         /\ Unchanged
    ELSE LET letter == GuessLetter(guess)
             moved  == ApplyGuess(game, letter)
         IN  IF IsWon(moved)
             THEN /\ end_game(k, moved, TRUE, fail)
                  /\ response' = Answer(fail, Ok(MoveMessage(game, letter, "win")))
                  /\ UNCHANGED nextGameId
             ELSE IF IsLost(moved)
             THEN /\ end_game(k, moved, FALSE, fail)
                  /\ response' = Answer(fail, Ok(MoveMessage(game, letter, "over")))
                  /\ UNCHANGED nextGameId
             ELSE IF fail = "game.put"
             THEN /\ response' = ServerError(fail)
                  /\ Unchanged
             ELSE /\ games' = Put(games, k, moved)
                  /\ response' = Ok(MoveMessage(game, letter, ""))
                  /\ UNCHANGED <<users, scores, nextGameId, scorePuts, userPuts>>

\* make_move: line 93, then the rest on the game it read
MakeMoveRequest(k, guess, fail) == MakeMoveOn(k, get_by_urlsafe(k), guess, fail)

make_move(k, guess) == MakeMoveRequest(k, guess, NoFail)

\* cancel_game without the game_over test
cancel_game_any(k) ==
    LET game == get_by_urlsafe(k) IN
    IF game # None
    THEN /\ games' = Delete(games, k)
         /\ response' = Ok("Game deleted!")
         /\ UNCHANGED <<users, scores, nextGameId, scorePuts, userPuts>>
    ELSE /\ response' = NotFound("Game not found!")
         /\ Unchanged

cancel_game(k) ==
    LET game == get_by_urlsafe(k) IN
    IF game # None /\ game.game_over
    THEN /\ response' = BadRequest("Game is already over!")
         /\ Unchanged
    ELSE IF game # None /\ ~game.game_over
    THEN /\ games' = Delete(games, k)
         /\ response' = Ok("Game deleted!")
         /\ UNCHANGED <<users, scores, nextGameId, scorePuts, userPuts>>
    ELSE /\ response' = NotFound("Game not found!")
         /\ Unchanged

-----------------------------------------------------------------------------
(* Specifications *)

Next ==
    \/ \E n \in UserNames, e \in Emails :
            create_user(n, e) /\ UNCHANGED pending
    \/ \E n \in UserNames, w \in TargetWords :
            new_game(n, w) /\ UNCHANGED pending
    \/ \E k \in GameKeys, g \in Guesses :
            make_move(k, g) /\ UNCHANGED pending
    \/ \E k \in GameKeys :
            cancel_game(k) /\ UNCHANGED pending

\* requests are served one at a time and every datastore write succeeds
Spec == Init /\ [][Next]_vars

\* a request whose write raises
new_game_failing(n, w, fail) == NewGameRequest(n, w, fail)

make_move_failing(k, g, fail) == MakeMoveRequest(k, g, fail)

NextFail ==
    \/ Next
    \/ \E n \in UserNames, w \in TargetWords, f \in FailPoints :
            new_game_failing(n, w, f) /\ UNCHANGED pending
    \/ \E k \in GameKeys, g \in Guesses, f \in FailPoints :
            make_move_failing(k, g, f) /\ UNCHANGED pending

\* requests are served one at a time and any datastore write may raise
SpecFail == Init /\ [][NextFail]_vars

-----------------------------------------------------------------------------
(* Vocabulary of the properties *)

Exists(k) == k \in DOMAIN games

Live(k) == Exists(k) /\ ~games[k].game_over

Over(k) == Exists(k) /\ games[k].game_over

Entities == <<users, games, scores, scorePuts, userPuts>>

\* a guess that is exactly one alphabetic character
OneLetter(g) == Len(g) = 1 /\ (g[1] \in LowerLetters \/ g[1] \in UpperLetters)

WrongCount(history) ==
    Cardinality({i \in DOMAIN history : history[i][2] = "Wrong letter guess"})

RECURSIVE SumOver(_, _)
SumOver(f, S) ==
    IF S = {} THEN 0
    ELSE LET x == CHOOSE y \in S : TRUE IN f[x] + SumOver(f, S \ {x})

-----------------------------------------------------------------------------
(* C1 *)

\* C1: a finished game is absorbing.  No step changes a game whose
\* game_over is true (so game_over never returns to false), and make_move
\* on such a game, whatever the guess, answers 'Game already over!' and
\* leaves every Game, Score and User as it was.
C1_TerminalAbsorbing ==
    [][ /\ \A k \in GameKeys :
              Over(k) => Exists(k)' /\ games'[k] = games[k]
        /\ \A k \in GameKeys, g \in Guesses :
              (Over(k) /\ make_move(k, g)) =>
                  /\ response' = Ok("Game already over!")
                  /\ UNCHANGED Entities ]_vars

C1_Witness ==
    /\ response = Ok("Game already over!")
    /\ \E k \in GameKeys : Over(k)

-----------------------------------------------------------------------------
(* C2 *)

\* C2: wrong_guesses_remaining stays between 0 and wrong_guesses_allowed in
\* every reachable state, and no step increases it.
C2_RemainingBounded ==
    /\ [](\A k \in DOMAIN games :
            /\ 0 <= games[k].wrong_guesses_remaining
            /\ games[k].wrong_guesses_remaining <= games[k].wrong_guesses_allowed)
    /\ [][\A k \in GameKeys :
            (Exists(k) /\ Exists(k)') =>
                games'[k].wrong_guesses_remaining <= games[k].wrong_guesses_remaining]_vars

C2_Witness ==
    \E k \in GameKeys :
        /\ Exists(k)
        /\ games[k].wrong_guesses_remaining = 0
        /\ Len(games[k].guess_history) = games[k].wrong_guesses_allowed

-----------------------------------------------------------------------------
(* C3 *)

-----------------------------------------------------------------------------
(* C4 *)

\* C4: with requests served one at a time, a game whose game_over is true
\* has produced exactly one Score and one update of its owner, every other
\* game key has produced none, the Score and User entities hold exactly
\* those writes, and no step modifies or removes a stored Score.
C4_OneScorePerFinishedGame ==
    /\ [](/\ \A k \in GameKeys :
               /\ Over(k) => scorePuts[k] = 1 /\ userPuts[k] = 1
               /\ ~Over(k) => scorePuts[k] = 0 /\ userPuts[k] = 0
          /\ Len(scores) = SumOver(scorePuts, GameKeys)
          /\ SumOver([n \in DOMAIN users |-> users[n].games_played], DOMAIN users)
                = SumOver(userPuts, GameKeys))
    /\ [][/\ Len(scores') >= Len(scores)
          /\ \A i \in 1..Len(scores) : scores'[i] = scores[i]]_vars

C4_Witness ==
    /\ \E k \in GameKeys : Over(k) /\ scorePuts[k] = 1 /\ userPuts[k] = 1
    /\ Len(scores) = 1
    /\ response = Ok("Game already over!")

-----------------------------------------------------------------------------
(* C5 *)

\* C5: finalizing is all or nothing even when a datastore write raises:
\* in every persisted state a game is marked over exactly when its Score is
\* stored and exactly when its owner's statistics were updated.
C5_FinalizeAtomic ==
    \A k \in GameKeys :
        /\ Over(k) <=> scorePuts[k] >= 1
        /\ Over(k) <=> userPuts[k] >= 1

-----------------------------------------------------------------------------
(* C6 *)

\* C6: every persisted game's target_word is made of lowercase letters
\* only and is at least 8 characters long (a word with any other character,
\* a trailing newline included, is rejected and persists no Game).
C6_PersistedWordAlphabetic ==
    \A k \in DOMAIN games :
        /\ Len(games[k].target_word) >= 8
        /\ \A i \in 1..Len(games[k].target_word) :
              games[k].target_word[i] \in LowerLetters

-----------------------------------------------------------------------------
(* C7 *)

\* C7: on a game that is not over, a guess whose lowercase form is already
\* among correct_letters_guessed (submitted in either case) is answered
\* with a bad-request error and changes no Game, Score or User; hence
\* correct_letters_guessed never holds a letter twice and holds only
\* letters of target_word.
C7_DuplicateRejected ==
    /\ [](\A k \in DOMAIN games :
            LET c == games[k].correct_letters_guessed
            IN  /\ \A i, j \in DOMAIN c : c[i] = c[j] => i = j
                /\ \A i \in DOMAIN c :
                      \E p \in DOMAIN games[k].target_word :
                          games[k].target_word[p] = c[i])
    /\ [][\A k \in GameKeys, g \in Guesses :
            ( /\ Live(k)
              /\ OneLetter(g)
              /\ \E i \in DOMAIN games[k].correct_letters_guessed :
                    games[k].correct_letters_guessed[i] = LowerChar(g[1])
              /\ make_move(k, g) ) =>
                  /\ response' = BadRequest("Letter has previously been guessed")
                  /\ UNCHANGED Entities ]_vars

C7_Witness ==
    /\ response = BadRequest("Letter has previously been guessed")
    /\ \E k \in GameKeys :
          Live(k) /\ Len(games[k].correct_letters_guessed) = 1

-----------------------------------------------------------------------------
(* C8 *)

\* C8: on a game that is not over, a guess that is not exactly one
\* alphabetic character (empty, several characters, a digit, a letter
\* followed by a newline) is answered with a bad-request error and changes
\* no Game, Score or User.
C8_InvalidGuessRejected ==
    [][\A k \in GameKeys, g \in Guesses :
          (Live(k) /\ ~OneLetter(g) /\ make_move(k, g)) =>
              /\ response'.status = "BadRequestException"
              /\ UNCHANGED Entities ]_vars

C8_Witness ==
    /\ response = BadRequest("Only single letters allowed as guesses")
    /\ \E k \in GameKeys : Live(k) /\ Len(games[k].guess_history) >= 1

-----------------------------------------------------------------------------
(* C9 *)

\* C9: make_move on a key that resolves to no game (never created, or
\* deleted by cancel_game) answers with a not-found error and changes no
\* state.
C9_MissingGameNotFound ==
    [][\A k \in GameKeys, g \in Guesses :
          (~Exists(k) /\ make_move(k, g)) =>
              /\ response'.status = "NotFoundException"
              /\ UNCHANGED Entities ]_vars

-----------------------------------------------------------------------------
(* C10 *)

\* C10: when an accepted guess completes the word, the same request marks
\* the game over, appends a Score with won = true, final_score =
\* wrong_guesses_remaining = 10 - (wrong guesses made) and wrong_guesses =
\* wrong_guesses_allowed - wrong_guesses_remaining, and adds 1 to the
\* owner's wins, 1 to games_played and final_score to total_score, leaving
\* every other User alone.
C10_WinFinalizes ==
    [][\A k \in GameKeys, g \in Guesses :
          ( /\ Live(k)
            /\ make_move(k, g)
            /\ games'[k].target_word_progress = games'[k].target_word ) =>
              LET old   == games[k]
                  new   == games'[k]
                  owner == old.user
                  final == new.wrong_guesses_remaining
              IN  /\ new.game_over
                  /\ final = 10 - WrongCount(new.guess_history)
                  /\ Len(scores') = Len(scores) + 1
                  /\ \A i \in 1..Len(scores) : scores'[i] = scores[i]
                  /\ scores'[Len(scores')].user = owner
                  /\ scores'[Len(scores')].won = TRUE
                  /\ scores'[Len(scores')].final_score = final
                  /\ scores'[Len(scores')].wrong_guesses
                        = new.wrong_guesses_allowed - final
                  /\ DOMAIN users' = DOMAIN users
                  /\ users'[owner].wins = users[owner].wins + 1
                  /\ users'[owner].games_played = users[owner].games_played + 1
                  /\ users'[owner].total_score = users[owner].total_score + final
                  /\ \A n \in DOMAIN users \ {owner} : users'[n] = users[n] ]_vars

C10_Witness ==
    \E k \in GameKeys :
        /\ Over(k)
        /\ games[k].target_word_progress = games[k].target_word
        /\ games[k].wrong_guesses_remaining = 7
        /\ Len(scores) = 1
        /\ scores[1].won /\ scores[1].final_score = 7 /\ scores[1].wrong_guesses = 3
        /\ users[games[k].user].wins = 1
        /\ users[games[k].user].total_score = 7
        /\ response = Ok("Correct letter guess! You win!")
        /\ Cardinality(DOMAIN users) = 2


-----------------------------------------------------------------------------
(* C11 *)

\* C11: when an accepted wrong guess brings wrong_guesses_remaining to 0,
\* the same request marks the game over, appends a Score with won = false,
\* final_score = 0 and wrong_guesses = wrong_guesses_allowed, adds 1 to the
\* owner's games_played and leaves the owner's wins and total_score, and
\* every other User, as they were.
C11_LossFinalizes ==
    [][\A k \in GameKeys, g \in Guesses :
          ( /\ Live(k)
            /\ make_move(k, g)
            /\ games'[k].wrong_guesses_remaining = 0 ) =>
              LET old   == games[k]
                  new   == games'[k]
                  owner == old.user
              IN  /\ old.wrong_guesses_remaining = 1
                  /\ new.game_over
                  /\ Len(scores') = Len(scores) + 1
                  /\ \A i \in 1..Len(scores) : scores'[i] = scores[i]
                  /\ scores'[Len(scores')].user = owner
                  /\ scores'[Len(scores')].won = FALSE
                  /\ scores'[Len(scores')].final_score = 0
                  /\ scores'[Len(scores')].wrong_guesses = new.wrong_guesses_allowed
                  /\ DOMAIN users' = DOMAIN users
                  /\ users'[owner].games_played = users[owner].games_played + 1
                  /\ users'[owner].wins = users[owner].wins
                  /\ users'[owner].total_score = users[owner].total_score
                  /\ \A n \in DOMAIN users \ {owner} : users'[n] = users[n] ]_vars

C11_Witness ==
    \E k \in GameKeys :
        /\ Over(k)
        /\ games[k].wrong_guesses_remaining = 0
        /\ Len(scores) = 1
        /\ ~scores[1].won /\ scores[1].final_score = 0 /\ scores[1].wrong_guesses = 10
        /\ users[games[k].user].games_played = 1
        /\ users[games[k].user].wins = 0
        /\ response = Ok("Wrong letter guess! Game over!")


-----------------------------------------------------------------------------
(* C12 *)

\* C12: every User has games_played >= wins >= 0 in every reachable state,
\* no User is ever removed, and no step decreases wins or games_played.
C12_UserCountersMonotone ==
    /\ [](\A n \in DOMAIN users :
            users[n].games_played >= users[n].wins /\ users[n].wins >= 0)
    /\ [][\A n \in DOMAIN users :
            /\ n \in DOMAIN users'
            /\ users'[n].wins >= users[n].wins
            /\ users'[n].games_played >= users[n].games_played]_vars

C12_Witness ==
    \E n \in DOMAIN users :
        /\ users[n].wins = 1
        /\ users[n].games_played = 1
        /\ users[n].total_score = 10
        /\ Cardinality(DOMAIN users) = 2

-----------------------------------------------------------------------------
(* C13 *)

\* C13: cancel_game deletes a game only while it is not over.  On a
\* finished game it is answered with a bad-request error and changes no
\* Game, Score or User; on an unfinished game it removes that game alone,
\* stores no Score and changes no User; and no step at all removes a
\* finished game.
C13_CancelOnlyLive ==
    [][ /\ \A k \in GameKeys :
              (Over(k) /\ cancel_game(k)) =>
                  /\ response' = BadRequest("Game is already over!")
                  /\ UNCHANGED Entities
        /\ \A k \in GameKeys :
              (Live(k) /\ cancel_game(k)) =>
                  /\ DOMAIN games' = DOMAIN games \ {k}
                  /\ \A j \in DOMAIN games' : games'[j] = games[j]
                  /\ UNCHANGED <<users, scores, scorePuts, userPuts>>
        /\ \A k \in GameKeys :
              (Exists(k) /\ ~Exists(k)') => Live(k) ]_vars

C13_Witness ==
    /\ response = BadRequest("Game is already over!")
    /\ \E k \in GameKeys : Over(k)
    /\ Len(scores) = 1

-----------------------------------------------------------------------------
(* C14 *)

\* C14: guess_history is append-only with one entry per accepted move.  In
\* every reachable state its length is the number of correct letters plus
\* the wrong guesses charged, and each entry's result tells whether its
\* letter is in target_word; an accepted guess appends exactly the pair
\* (lower-cased guess, result), any other request leaves it as it was, and
\* no step changes or removes an earlier entry.
C14_HistoryAppendOnly ==
    /\ [](\A k \in DOMAIN games :
            LET h == games[k].guess_history
                w == games[k].target_word
            IN  /\ Len(h) = Len(games[k].correct_letters_guessed)
                            + (games[k].wrong_guesses_allowed
                               - games[k].wrong_guesses_remaining)
                /\ \A i \in DOMAIN h :
                      h[i][2] = IF \E p \in DOMAIN w : w[p] = h[i][1]
                                THEN "Correct letter guess"
                                ELSE "Wrong letter guess")
    /\ [][ /\ \A k \in GameKeys :
                 (Exists(k) /\ Exists(k)') =>
                     LET h  == games[k].guess_history
                         h2 == games'[k].guess_history
                     IN  /\ Len(h) <= Len(h2) /\ Len(h2) <= Len(h) + 1
                         /\ \A i \in DOMAIN h : h2[i] = h[i]
           /\ \A k \in GameKeys, g \in Guesses :
                 (Exists(k) /\ make_move(k, g)) =>
                     LET h  == games[k].guess_history
                         h2 == games'[k].guess_history
                         accepted ==
                             /\ Live(k)
                             /\ OneLetter(g)
                             /\ \A i \in DOMAIN games[k].correct_letters_guessed :
                                   games[k].correct_letters_guessed[i] # LowerChar(g[1])
                     IN  IF accepted
                         THEN /\ Len(h2) = Len(h) + 1
                              /\ h2[Len(h2)][1] = LowerChar(g[1])
                         ELSE h2 = h ]_vars

C14_Witness ==
    \E k \in GameKeys :
        /\ Exists(k)
        /\ games[k].guess_history = << <<"b", "Wrong letter guess">>,
                                       <<"a", "Correct letter guess">> >>


-----------------------------------------------------------------------------
(* C16 *)

\* C16: only correct letters count as duplicates.  On a game that is not
\* over, a letter already recorded as a wrong guess is accepted again: the
\* request succeeds, takes 1 more from wrong_guesses_remaining and appends
\* another 'wrong' entry for it, so ten submissions of one wrong letter
\* lose the game.
C16_WrongLetterChargedAgain ==
    [][\A k \in GameKeys, g \in Guesses :
          ( /\ Live(k)
            /\ OneLetter(g)
            /\ \E i \in DOMAIN games[k].guess_history :
                  games[k].guess_history[i] = <<LowerChar(g[1]), "Wrong letter guess">>
            /\ make_move(k, g) ) =>
              /\ response'.status = "ok"
              /\ games'[k].wrong_guesses_remaining
                    = games[k].wrong_guesses_remaining - 1
              /\ games'[k].guess_history
                    = Append(games[k].guess_history,
                             <<LowerChar(g[1]), "Wrong letter guess">>)
              /\ games'[k].correct_letters_guessed
                    = games[k].correct_letters_guessed ]_vars

C16_Witness ==
    \E k \in GameKeys :
        /\ Over(k)
        /\ games[k].guess_history = [i \in 1..10 |-> <<"b", "Wrong letter guess">>]
        /\ Len(scores) = 1 /\ ~scores[1].won

-----------------------------------------------------------------------------
(* C17 *)

\* C17: with requests served one at a time, a game is over exactly when
\* its progress equals its target word or it has no wrong guess left, and
\* never both: a game that is not over has at least 1 wrong guess left and
\* an incomplete progress string.
C17_OverIffWonOrLost ==
    \A k \in DOMAIN games :
        LET won  == games[k].target_word_progress = games[k].target_word
            lost == games[k].wrong_guesses_remaining = 0
        IN  /\ games[k].game_over <=> (won \/ lost)
            /\ ~(won /\ lost)
            /\ ~games[k].game_over =>
                  /\ games[k].wrong_guesses_remaining >= 1
                  /\ games[k].target_word_progress # games[k].target_word

C17_Witness ==
    \E k \in GameKeys :
        /\ Over(k)
        /\ games[k].target_word_progress = games[k].target_word
        /\ games[k].wrong_guesses_remaining = 1

-----------------------------------------------------------------------------
(* C18 *)

\* C18: with requests served one at a time, each User's counters agree
\* with the stored Scores: games_played is the number of the user's Scores,
\* wins the number of those with won = true, total_score the sum of their
\* final_score over those with won = true; and every Score has
\* wrong_guesses + final_score = 10 and an existing owner.
C18_CountersMatchScores ==
    /\ \A n \in DOMAIN users :
          LET mine == {i \in DOMAIN scores : scores[i].user = n}
              won  == {i \in mine : scores[i].won}
          IN  /\ users[n].games_played = Cardinality(mine)
              /\ users[n].wins = Cardinality(won)
              /\ users[n].total_score
                    = SumOver([i \in won |-> scores[i].final_score], won)
    /\ \A i \in DOMAIN scores :
          /\ scores[i].wrong_guesses + scores[i].final_score = 10
          /\ scores[i].user \in DOMAIN users

C18_Witness ==
    /\ Len(scores) = 1
    /\ scores[1].won /\ scores[1].final_score = 9
    /\ users[scores[1].user].total_score = 9
    /\ users[scores[1].user].wins = 1
    /\ Cardinality(DOMAIN users) = 2


-----------------------------------------------------------------------------
(* api.py: get_high_scores, over a datastore of finished games *)

\* number of finished games, hence Scores, in the datastore
MaxScores == 2

\* a game of 'aaaaaaaa' after w wrong guesses of 'b'
RECURSIVE Charged(_, _)
Charged(game, w) ==
    IF w = 0 THEN game ELSE Charged(WrongGuess(game, "b"), w - 1)

\* the finished game of user after w wrong guesses: won by 'a' if w < 10
PlayedGame(user, w) ==
    LET start == NewGame(user, <<"a","a","a","a","a","a","a","a">>)
    IN  Finished(IF w < DefaultWrongGuesses
                 THEN CorrectGuess(Charged(start, w), "a")
                 ELSE Charged(start, w))

\* the user after the first n of the games played with outs wrong guesses
RECURSIVE PlayedUser(_, _, _)
PlayedUser(user, outs, n) ==
    IF n = 0 THEN user
    ELSE LET before == PlayedUser(user, outs, n - 1)
             game   == PlayedGame(user.name, outs[n])
         IN  IF IsWon(game) THEN add_win(before, game.wrong_guesses_remaining)
             ELSE add_loss(before)

\* the datastore after alice played Len(outs) games to their end
InitScores ==
    \E n \in 0..MaxScores : \E outs \in [1..n -> 0..DefaultWrongGuesses] :
        /\ users = Put(<< >>, "alice",
                       PlayedUser(NewUser("alice", "a@x.org"), outs, n))
        /\ games = [k \in 1..n |-> PlayedGame("alice", outs[k])]
        /\ scores = [k \in 1..n |->
                        NewScore(PlayedGame("alice", outs[k]),
                                 IsWon(PlayedGame("alice", outs[k])))]
        /\ nextGameId = n + 1
        /\ scorePuts = [k \in 1..n |-> 1]
        /\ userPuts = [k \in 1..n |-> 1]
        /\ response = Ok("")
        /\ pending = << >>

\* the orders in which a query without an order may return n entities
Orders(n) == {f \in [1..n -> 1..n] : \A i, j \in 1..n : f[i] = f[j] => i = j}

\* Score.query().fetch(limit): the first limit entities in the datastore's order
Fetch(order, limit) ==
    [i \in 1..(IF limit < Len(scores) THEN limit ELSE Len(scores)) |->
        scores[order[i]]]

\* inserting x into a list sorted by descending final_score, after its equals
RECURSIVE InsertDesc(_, _)
InsertDesc(x, sorted) ==
    IF sorted = << >> THEN <<x>>
    ELSE IF x.final_score > sorted[1].final_score THEN <<x>> \o sorted
    ELSE <<sorted[1]>> \o InsertDesc(x, Tail(sorted))

\* sorted(scores, key=lambda x: x.final_score, reverse=True), a stable sort
RECURSIVE SortedDesc(_, _)
SortedDesc(list, n) ==
    IF n = 0 THEN << >> ELSE InsertDesc(list[n], SortedDesc(list, n - 1))

\* Score.to_form
ScoreForm(score) ==
    [user_name |-> users[score.user].name, won |-> score.won, date |-> score.date,
     wrong_guesses |-> score.wrong_guesses, final_score |-> score.final_score]

get_high_scores(number_of_results, order) ==
    LET fetched == Fetch(order, number_of_results)
        sorted  == SortedDesc(fetched, Len(fetched))
    IN  /\ response' = [status |-> "ok", msg |-> "ScoreForms",
                        number_of_results |-> number_of_results,
                        items |-> [i \in DOMAIN sorted |-> ScoreForm(sorted[i])]]
        /\ Unchanged

NextScores ==
    /\ \E n \in 1..MaxScores, order \in Orders(Len(scores)) :
            get_high_scores(n, order)
    /\ UNCHANGED pending

\* get_high_scores requests on a datastore of finished games
SpecScores == InitScores /\ [][NextScores]_vars

-----------------------------------------------------------------------------
(* C15 *)

\* C15: get_high_scores(number_of_results = n) answers with the n stored
\* Scores of highest final_score (all of them if fewer are stored), in
\* descending order of final_score, whatever order the datastore returns
\* them in.
C15_TopScores ==
    response.msg = "ScoreForms" =>
        LET items == response.items
            n     == response.number_of_results
            AtLeast(list, v) ==
                Cardinality({i \in DOMAIN list : list[i].final_score >= v})
            Least(a, b) == IF a < b THEN a ELSE b
        IN  /\ Len(items) = Least(n, Len(scores))
            /\ \A i, j \in DOMAIN items :
                  i < j => items[i].final_score >= items[j].final_score
            /\ \A v \in 0..10 :
                  AtLeast(items, v) = Least(n, AtLeast(scores, v))


-----------------------------------------------------------------------------
(* api.py: make_move with two requests in flight *)

\* the two requests that interleave
Requests == {"first", "second"}

\* interleaved requests are begun while fewer Scores than this are stored
\* (a stale write can reopen a finished game, so Scores have no bound)
MaxRaceScores == 1

\* line 93: the request reads the game and holds its own copy of it
read_move(r, k, guess) ==
    /\ r \notin DOMAIN pending
    /\ Exists(k)
    /\ Len(scores) < MaxRaceScores
    /\ pending' = Put(pending, r,
                      [key |-> k, guess |-> guess, game |-> get_by_urlsafe(k)])
    /\ UNCHANGED <<users, games, scores, nextGameId, scorePuts, userPuts, response>>

\* lines 94-125: the request checks, changes and writes the copy it read
finish_move(r) ==
    /\ r \in DOMAIN pending
    /\ MakeMoveOn(pending[r].key, pending[r].game, pending[r].guess, NoFail)
    /\ pending' = Delete(pending, r)

\* the requests submitted while requests interleave
RaceWords ==
    { <<"a","a","a","a","a","a","a","b">>,
      <<"a","a","a","a","a","a","a","a">> }

RaceGuesses == { <<"a">>, <<"b">> }

NextRace ==
    \/ \E e \in Emails :
            create_user("alice", e) /\ UNCHANGED pending
    \/ \E w \in RaceWords :
            new_game("alice", w) /\ UNCHANGED pending
    \/ \E r \in Requests, k \in GameKeys, g \in RaceGuesses : read_move(r, k, g)
    \/ \E r \in Requests : finish_move(r)

\* make_move requests interleave between their read and their writes
SpecRace == Init /\ [][NextRace]_vars

-----------------------------------------------------------------------------
(* C19 *)

\* C19: when make_move requests on one game interleave, the game still
\* produces at most one Score and at most one update of its owner's
\* games_played, and no accepted guess is lost: every accepted request
\* leaves the stored guess_history one entry longer than it found it and
\* wrong_guesses_remaining no higher.
C19_RaceSafe ==
    [][ /\ \A k \in GameKeys : scorePuts'[k] <= 1 /\ userPuts'[k] <= 1
        /\ \A r \in Requests :
              ( /\ finish_move(r)
                /\ Exists(pending[r].key)
                /\ response'.status = "ok"
                /\ response'.msg # "Game already over!" ) =>
                  LET k == pending[r].key
                  IN  /\ Len(games'[k].guess_history)
                            = Len(games[k].guess_history) + 1
                      /\ games'[k].wrong_guesses_remaining
                            <= games[k].wrong_guesses_remaining ]_vars


-----------------------------------------------------------------------------
(* Termination: games played to their end, a wrong letter always at hand *)

\* target words of the games played out: one alphabetic, one that line 72
\* of models.py lets through with its trailing newline
TermWords ==
    { <<"a","a","a","a","a","a","a","a">>,
      <<"a","a","a","a","a","a","a",NL>> }

TermGuesses == { <<"a">>, <<"b">> }

NextTerm ==
    \/ \E e \in Emails :
            create_user("alice", e) /\ UNCHANGED pending
    \/ \E w \in TermWords :
            new_game("alice", w) /\ UNCHANGED pending
    \/ \E k \in GameKeys, g \in TermGuesses :
            make_move(k, g) /\ UNCHANGED pending

SpecTerm == Init /\ [][NextTerm]_vars

\* D: the number of distinct letters of a word
DistinctLetters(word) == Cardinality({c \in Range(word) : IsAlpha(c)})

\* C20: a game whose target word has D distinct letters never has more
\* than D + 9 entries in guess_history (9 being one less than the wrong
\* guesses a game starts with).
C20_GuessesBounded ==
    \A k \in GameKeys :
        Exists(k) =>
            Len(games[k].guess_history)
                <= DistinctLetters(games[k].target_word)
                     + (DefaultWrongGuesses - 1)

====
